---- MODULE Spec2Model ----
(***************************************************************************)
(* ChangeTimer (ts/editable/change-timer.ts): a debounced action scheduler *)
(* on top of the host's setTimeout/clearTimeout.                           *)
(*                                                                         *)
(* The object's four fields are the variables value, action, startTime and *)
(* delayMs.  The host is the set `timers` of outstanding registrations and *)
(* the clock `now`.  Every schedule() call is numbered (an "arm"); the     *)
(* number names both the action passed to that call and the handle the     *)
(* host returns for it (hosts hand out fresh positive handles).            *)
(* The remaining variables are history: what each arm's action does when   *)
(* called, how often it was called, which arms had a clear() return after  *)
(* them, and what the last call did.                                       *)
(***************************************************************************)
EXTENDS Integers, FiniteSets, Sequences, TLC

VARIABLES value, action, startTime, delayMs,   \* the ChangeTimer fields
          timers, now,                         \* host: registrations, clock
          arms, kind, count, cleared,          \* history per schedule() call
          op, ran, threw, removed              \* history of the last call

\* the theme module (sveltelib/theme.ts) in one page of the client
VARIABLES loaded,        \* the module has been evaluated in this page
          themeMode,     \* value of the themeMode store
          stored,        \* localStorage entry anki_ui_theme_mode_v1
          rootClasses,   \* class list of document.documentElement
          pageDark,      \* pageTheme.isDark
          mutated,       \* a class mutation record awaits the observer
          tOp, lastSet, storageThrew   \* history

timerVars == <<value, action, startTime, delayMs, timers, now,
               arms, kind, count, cleared, op, ran, threw, removed>>

themeVars == <<loaded, themeMode, stored, rootClasses, pageDark, mutated,
               tOp, lastSet, storageThrew>>

\* the deadline planner (routes/debug/Deadline.svelte)
VARIABLES mounted,                       \* the component is on the page
          title, deadline, totalCards, dailyCapacity, retention,
          daysRemaining, requiredPerDay, achievablePercent, note,
          settings,                      \* localStorage entry, {} if missing
          pOp                            \* history: the last operation

plannerVars == <<mounted, title, deadline, totalCards, dailyCapacity,
                 retention, daysRemaining, requiredPerDay, achievablePercent,
                 note, settings, pOp>>

vars == <<timerVars, themeVars, plannerVars>>

\* ---- bounds ----
MaxArms == 2      \* schedule() calls in one run
MaxTime == 3      \* clock ticks in one run
MaxDelay == 2     \* largest delay passed to schedule()
MaxCalls == 2     \* invocations of one action in one run

\* null of the source; handles and actions are positive, delays are >= 0
Null == -1

Arms == 1..MaxArms
Delays == 0..MaxDelay
\* what a caller-supplied action does when invoked: return, raise, or call
\* schedule() on the same instance before returning
Kinds == {"ok", "raise", "rearm"}

\* JavaScript truthiness of a `number | null` field
Truthy(v) == v # Null /\ v # 0

\* the object and the host as one record, for the methods to transform
Self == [value |-> value, action |-> action, startTime |-> startTime,
         delayMs |-> delayMs, timers |-> timers, arms |-> arms, kind |-> kind,
         count |-> count, cleared |-> cleared, ran |-> Null, threw |-> FALSE,
         removed |-> {}]

\* host: register a callback (always fireImmediately) due `delay` from now
setTimeout(ts, h, delay) == ts \cup {[handle |-> h, due |-> now + delay]}

\* host: deregister; unknown or already delivered handles are ignored
clearTimeout(ts, h) == {t \in ts : t.handle # h}

\* clear() that forgets the clearTimeout call
clearKeepsTimer(s) ==
    LET returned == [s EXCEPT !.cleared = 1..s.arms]
    IN  IF Truthy(s.value)
        THEN [returned EXCEPT !.value = Null, !.startTime = Null, !.delayMs = Null]
        ELSE returned

\* clear() that hands the null handle to the host and fails on it
clearThrowsOnIdle(s) ==
    LET returned == [s EXCEPT !.cleared = 1..s.arms]
    IN  IF Truthy(s.value)
        THEN [returned EXCEPT
                !.timers = clearTimeout(s.timers, s.value),
                !.removed = @ \cup {t.handle : t \in {u \in s.timers : u.handle = s.value}},
                !.value = Null,
                !.startTime = Null,
                !.delayMs = Null]
        ELSE [returned EXCEPT !.threw = TRUE]

\* ChangeTimer.clear
clear(s) ==
    LET returned == [s EXCEPT !.cleared = 1..s.arms]
    IN  IF Truthy(s.value)
        THEN [returned EXCEPT
                !.timers = clearTimeout(s.timers, s.value),
                !.removed = @ \cup {t.handle : t \in {u \in s.timers : u.handle = s.value}},
                !.value = Null,
                !.startTime = Null,
                !.delayMs = Null]
        ELSE returned

\* schedule() that forgets the leading this.clear()
scheduleNoClear(s, k, delay) ==
    LET id == s.arms + 1
    IN  [s EXCEPT
            !.arms = id,
            !.kind[id] = k,
            !.action = id,
            !.startTime = now,
            !.delayMs = delay,
            !.timers = setTimeout(s.timers, id, delay),
            !.value = id]

\* schedule() that ignores the call while a handle is held
scheduleUnlessScheduled(s, k, delay) ==
    LET c == clear(s)
        id == s.arms + 1
    IN  IF Truthy(s.value)
        THEN IF id \in Arms THEN [s EXCEPT !.arms = id, !.kind[id] = k] ELSE s
        ELSE [c EXCEPT
                !.arms = id,
                !.kind[id] = k,
                !.action = id,
                !.startTime = now,
                !.delayMs = delay,
                !.timers = setTimeout(c.timers, id, delay),
                !.value = id]

\* schedule() that runs the action at once when the delay is 0
scheduleSyncOnZero(s, k, delay) ==
    LET c == clear(s)
        id == c.arms + 1
        armed == [c EXCEPT
                    !.arms = id,
                    !.kind[id] = k,
                    !.action = id,
                    !.startTime = now,
                    !.delayMs = delay,
                    !.timers = setTimeout(c.timers, id, delay),
                    !.value = id]
    IN  IF delay = 0
        THEN [armed EXCEPT !.count[id] = @ + 1, !.ran = id]
        ELSE armed

\* ChangeTimer.schedule; k is what the passed action does when invoked
schedule(s, k, delay) ==
    LET c == clear(s)
        id == c.arms + 1
    IN  [c EXCEPT
            !.arms = id,
            !.kind[id] = k,
            !.action = id,
            !.startTime = now,
            !.delayMs = delay,
            !.timers = setTimeout(c.timers, id, delay),
            !.value = id]

\* this.action(): run the stored caller-supplied action
call(s) ==
    LET a == s.action
        entered == [s EXCEPT !.count[a] = @ + 1, !.ran = a]
    IN  CASE s.kind[a] = "raise" -> [entered EXCEPT !.threw = TRUE]
          [] s.kind[a] = "rearm" -> schedule(entered, "ok", 0)
          [] OTHER -> entered

\* fireImmediately() that cleans up before it runs the action, so that what
\* the action schedules survives the call
fireImmediatelyCleanupFirst(s) ==
    IF Truthy(s.action)
    THEN LET r == call(clear(s))
         IN  IF r.action = s.action THEN [r EXCEPT !.action = Null] ELSE r
    ELSE clear(s)

\* ChangeTimer.fireImmediately; an exception of the action leaves the method
\* before `this.action = null` and `this.clear()`
fireImmediately(s) ==
    IF Truthy(s.action)
    THEN LET r == call(s)
         IN  IF r.threw THEN r ELSE clear([r EXCEPT !.action = Null])
    ELSE clear(s)

\* ChangeTimer.isScheduled
isScheduled == value # Null

\* Math.max(0, x)
Max0(x) == IF x > 0 THEN x ELSE 0

\* getRemaining() without the Math.max
getRemainingNoMax ==
    IF Truthy(value) /\ startTime # Null /\ delayMs # Null
    THEN delayMs - (now - startTime)
    ELSE Null

\* getRemaining() with the operands of the elapsed time swapped
getRemainingSwapped ==
    IF Truthy(value) /\ startTime # Null /\ delayMs # Null
    THEN Max0(delayMs - (startTime - now))
    ELSE Null

\* ChangeTimer.getRemaining, called at the current time
getRemaining ==
    IF Truthy(value) /\ startTime # Null /\ delayMs # Null
    THEN LET elapsed == now - startTime
         IN  Max0(delayMs - elapsed)
    ELSE Null

\* ---- theme store ----
\* ThemeMode
Modes == {"system", "light", "dark"}

\* localStorage.getItem gives null for a missing entry
Missing == "null"

\* what the entry may hold when the page is opened
StoredValues == Modes \cup {Missing, "junk"}

\* class lists the application may give the root element
ClassLists == SUBSET {"night-mode", "macos"}

\* the page as one record, for the module's functions to transform
Page == [mode |-> themeMode, stored |-> stored, classes |-> rootClasses,
         pageDark |-> pageDark, mutated |-> mutated]

\* getThemeFromRoot().isDark
getThemeFromRoot(classes) == "night-mode" \in classes

\* applyMode that takes 'system' for 'light'
applyModeSystemIsLight(t, mode) ==
    LET classes == IF mode = "dark" THEN t.classes \cup {"night-mode"}
                   ELSE t.classes \ {"night-mode"}
    IN  [t EXCEPT !.classes = classes,
                  !.mutated = @ \/ classes # t.classes,
                  !.pageDark = getThemeFromRoot(classes)]

\* applyMode, on the client; setPageTheme is set since the get(pageTheme)
\* at module start
applyMode(t, mode) ==
    LET classes == CASE mode = "dark" -> t.classes \cup {"night-mode"}
                     [] mode = "light" -> t.classes \ {"night-mode"}
                     [] OTHER -> t.classes
    IN  [t EXCEPT !.classes = classes,
                  !.mutated = @ \/ classes # t.classes,
                  !.pageDark = getThemeFromRoot(classes)]

\* the subscriber of themeMode: persist, then apply; a throwing storage is
\* ignored
persistAndApply(t, m, throws) ==
    applyMode(IF throws THEN t ELSE [t EXCEPT !.stored = m], m)

\* hydration that takes whatever the entry holds
hydrateUnchecked(t, throws) ==
    IF ~throws /\ t.stored # Missing
    THEN [t EXCEPT !.mode = t.stored]
    ELSE [t EXCEPT !.mode = "system"]

\* the store starts as 'system' and takes the entry if it is a ThemeMode
hydrate(t, throws) ==
    LET raw == t.stored
    IN  IF ~throws /\ (raw = "light" \/ raw = "dark" \/ raw = "system")
        THEN [t EXCEPT !.mode = raw]
        ELSE [t EXCEPT !.mode = "system"]

\* evaluation of the module in a page: pageTheme, the store, hydration,
\* applyMode, and the subscription, whose callback runs at once
moduleStart(t, throws) ==
    LET page == [t EXCEPT !.pageDark = getThemeFromRoot(t.classes)]
        hydrated == hydrate(page, throws)
        applied == applyMode(hydrated, hydrated.mode)
    IN  persistAndApply(applied, applied.mode, throws)

\* themeMode.set(m): a writable store skips an unchanged value, otherwise
\* stores it and runs the subscriber
themeModeSet(t, m, throws) ==
    IF m = t.mode THEN t
    ELSE persistAndApply([t EXCEPT !.mode = m], m, throws)

ThemeBecome(t, name) ==
    /\ themeMode' = t.mode /\ stored' = t.stored
    /\ rootClasses' = t.classes /\ pageDark' = t.pageDark
    /\ mutated' = t.mutated
    /\ tOp' = name
    /\ UNCHANGED <<timerVars, plannerVars>>

\* the page evaluates the module
ThemeLoad(throws) ==
    /\ ~loaded
    /\ loaded' = TRUE
    /\ storageThrew' = (storageThrew \/ throws)
    /\ UNCHANGED lastSet
    /\ ThemeBecome(moduleStart(Page, throws), "load")

\* ThemeSelector.setMode(m), or any caller of themeMode.set(m)
ThemeSet(m, throws) ==
    /\ loaded
    /\ lastSet' = m
    /\ storageThrew' = (storageThrew \/ (throws /\ m # themeMode))
    /\ UNCHANGED loaded
    /\ ThemeBecome(themeModeSet(Page, m, throws), "set")

\* the application changes the theme class of the root element
AppSetsClass(classes) ==
    /\ classes # rootClasses
    /\ rootClasses' = classes
    /\ mutated' = TRUE
    /\ tOp' = "app"
    /\ UNCHANGED <<loaded, themeMode, stored, pageDark, lastSet, storageThrew,
                   timerVars, plannerVars>>

\* the MutationObserver callback runs
Observe ==
    /\ loaded /\ mutated
    /\ pageDark' = getThemeFromRoot(rootClasses)
    /\ mutated' = FALSE
    /\ tOp' = "observe"
    /\ UNCHANGED <<loaded, themeMode, stored, rootClasses, lastSet,
                   storageThrew, timerVars, plannerVars>>

\* the page is reloaded: the module's state is gone, the entry stays
Reload(classes) ==
    /\ loaded
    /\ loaded' = FALSE
    /\ themeMode' = "system"
    /\ rootClasses' = classes
    /\ pageDark' = FALSE /\ mutated' = FALSE
    /\ tOp' = "reload"
    /\ UNCHANGED <<stored, lastSet, storageThrew, timerVars, plannerVars>>

\* no page yet
ThemeOff ==
    /\ loaded = FALSE /\ themeMode = "system"
    /\ pageDark = FALSE /\ mutated = FALSE
    /\ tOp = "new" /\ lastSet = "none" /\ storageThrew = FALSE

\* ---- deadline planner ----
\* NaN of the source, beside the numbers
NaN == -2

\* the values the fields are initialised with; retention in hundredths
DefaultTotalCards == 100
DefaultDailyCapacity == 30
DefaultRetention == 85

Titles == {"", "exam"}
\* the deadline field: empty, not a date, or a date named by where it lies
\* from today
Deadlines == {"", "bad", "yesterday", "today", "tomorrow"}
CardCounts == {0, 1, DefaultTotalCards}
Capacities == {0, DefaultDailyCapacity}
Retentions == {0, DefaultRetention}

\* Math.max(0, Math.ceil((new Date(deadline + 'T23:59:59') - now) / oneDay))
DaysUntil(d) ==
    CASE d = "yesterday" -> 0
      [] d = "today" -> 1
      [] d = "tomorrow" -> 2
      [] OTHER -> NaN

\* Math.ceil(n / d) for n >= 0; NaN for a NaN operand
CeilDiv(n, d) == IF d = NaN \/ n = NaN THEN NaN ELSE (n + d - 1) \div d

\* a * b; NaN for a NaN operand
Times(a, b) == IF a = NaN \/ b = NaN THEN NaN ELSE a * b

\* Math.round(Math.min(1, possible / Math.max(1, total)) * retention * 100)
Achievable(possible, total, ret) ==
    LET t == IF total > 1 THEN total ELSE 1
    IN  IF possible = NaN THEN NaN
        ELSE IF possible >= t THEN ret
        ELSE (2 * possible * ret + t) \div (2 * t)

\* a < b of the source: false for a NaN operand
Less(a, b) == a # NaN /\ b # NaN /\ a < b

\* x is falsy: '' for the strings, 0, NaN and null for the numbers
FalsyString(x) == x = ""
FalsyNumber(x) == x = 0 \/ x = NaN \/ x = Null

\* JSON.stringify writes NaN as null; JSON.parse gives back what was written
JsonNumber(x) == IF x = NaN THEN Null ELSE x

\* the component as one record
Planner == [title |-> title, deadline |-> deadline, totalCards |-> totalCards,
            dailyCapacity |-> dailyCapacity, retention |-> retention,
            daysRemaining |-> daysRemaining, requiredPerDay |-> requiredPerDay,
            achievablePercent |-> achievablePercent, note |-> note,
            settings |-> settings]

\* load()
load(c) ==
    IF c.settings = {} THEN c
    ELSE LET s == CHOOSE r \in c.settings : TRUE
         IN  [c EXCEPT
                !.title = IF FalsyString(s.title) THEN @ ELSE s.title,
                !.deadline = IF FalsyString(s.deadline) THEN @ ELSE s.deadline,
                !.totalCards = IF FalsyNumber(s.totalCards) THEN @ ELSE s.totalCards,
                !.dailyCapacity =
                    IF FalsyNumber(s.dailyCapacity) THEN @ ELSE s.dailyCapacity,
                !.retention = IF s.retention = Null THEN @ ELSE s.retention]

\* save()
save(c) ==
    [c EXCEPT !.settings =
        {[title |-> c.title, deadline |-> c.deadline,
          totalCards |-> JsonNumber(c.totalCards),
          dailyCapacity |-> JsonNumber(c.dailyCapacity),
          retention |-> JsonNumber(c.retention)]}]

\* compute()
compute(c) ==
    IF FalsyString(c.deadline)
    THEN [c EXCEPT !.note = "", !.daysRemaining = Null,
                   !.requiredPerDay = Null, !.achievablePercent = Null]
    ELSE LET days == DaysUntil(c.deadline)
             first == IF days = 0 THEN "reached" ELSE ""
             required == IF days = 0 THEN c.totalCards
                         ELSE CeilDiv(c.totalCards, days)
             possibleReviews == Times(c.dailyCapacity, days)
             hint == IF Less(possibleReviews, c.totalCards)
                     THEN "short" ELSE "covers"
             counted == [c EXCEPT
                           !.daysRemaining = days,
                           !.note = first,
                           !.requiredPerDay = required]
             \* the hint is assigned to note in both branches
             hinted == [counted EXCEPT
                          !.achievablePercent =
                              Achievable(possibleReviews, c.totalCards, c.retention),
                          !.note = hint]
         IN  save(hinted)

\* reset()
reset(c) ==
    compute([c EXCEPT !.settings = {}, !.title = "", !.deadline = "",
                      !.totalCards = DefaultTotalCards,
                      !.dailyCapacity = DefaultDailyCapacity,
                      !.retention = DefaultRetention])

PlannerBecome(c, name) ==
    /\ title' = c.title /\ deadline' = c.deadline
    /\ totalCards' = c.totalCards /\ dailyCapacity' = c.dailyCapacity
    /\ retention' = c.retention
    /\ daysRemaining' = c.daysRemaining /\ requiredPerDay' = c.requiredPerDay
    /\ achievablePercent' = c.achievablePercent /\ note' = c.note
    /\ settings' = c.settings
    /\ pOp' = name
    /\ UNCHANGED <<timerVars, themeVars>>

\* onMount: load(), then compute()
Mount ==
    /\ ~mounted
    /\ mounted' = TRUE
    /\ PlannerBecome(compute(load(Planner)), "mount")

\* the user edits a field (bind:value)
EditTitle(x) ==
    /\ mounted /\ x # title /\ UNCHANGED mounted
    /\ PlannerBecome([Planner EXCEPT !.title = x], "edit")

EditDeadline(x) ==
    /\ mounted /\ x # deadline /\ UNCHANGED mounted
    /\ PlannerBecome([Planner EXCEPT !.deadline = x], "edit")

EditTotalCards(x) ==
    /\ mounted /\ x # totalCards /\ UNCHANGED mounted
    /\ PlannerBecome([Planner EXCEPT !.totalCards = x], "edit")

EditDailyCapacity(x) ==
    /\ mounted /\ x # dailyCapacity /\ UNCHANGED mounted
    /\ PlannerBecome([Planner EXCEPT !.dailyCapacity = x], "edit")

EditRetention(x) ==
    /\ mounted /\ x # retention /\ UNCHANGED mounted
    /\ PlannerBecome([Planner EXCEPT !.retention = x], "edit")

\* the compute button
Compute ==
    /\ mounted /\ UNCHANGED mounted
    /\ PlannerBecome(compute(Planner), "compute")

\* the reset button
Reset ==
    /\ mounted /\ UNCHANGED mounted
    /\ PlannerBecome(reset(Planner), "reset")

\* the fields of a component that has not been mounted
Fresh(c) ==
    [c EXCEPT !.title = "", !.deadline = "",
              !.totalCards = DefaultTotalCards,
              !.dailyCapacity = DefaultDailyCapacity,
              !.retention = DefaultRetention,
              !.daysRemaining = Null, !.requiredPerDay = Null,
              !.achievablePercent = Null, !.note = ""]

\* the session ends; the next one starts with a new component
EndSession ==
    /\ mounted
    /\ mounted' = FALSE
    /\ PlannerBecome(Fresh(Planner), "end")

\* a component that has not been mounted
PlannerOff ==
    /\ mounted = FALSE
    /\ title = "" /\ deadline = ""
    /\ totalCards = DefaultTotalCards
    /\ dailyCapacity = DefaultDailyCapacity
    /\ retention = DefaultRetention
    /\ daysRemaining = Null /\ requiredPerDay = Null
    /\ achievablePercent = Null /\ note = ""
    /\ pOp = "new"

\* ---- state machine ----
TimerInit ==
    /\ value = Null /\ action = Null /\ startTime = Null /\ delayMs = Null
    /\ timers = {} /\ now = 0
    /\ arms = 0
    /\ kind = [i \in Arms |-> "none"]
    /\ count = [i \in Arms |-> 0]
    /\ cleared = {}
    /\ op = "new" /\ ran = Null /\ threw = FALSE /\ removed = {}

\* no page of the theme module in the run
NoTheme == ThemeOff /\ stored = Missing /\ rootClasses = {}

Init ==
    /\ TimerInit
    /\ NoTheme
    /\ PlannerOff /\ settings = {}

Become(s, name) ==
    /\ value' = s.value /\ action' = s.action
    /\ startTime' = s.startTime /\ delayMs' = s.delayMs
    /\ timers' = s.timers
    /\ arms' = s.arms /\ kind' = s.kind /\ count' = s.count
    /\ cleared' = s.cleared
    /\ op' = name /\ ran' = s.ran /\ threw' = s.threw /\ removed' = s.removed
    /\ UNCHANGED <<now, themeVars, plannerVars>>

\* room for the action the stored action may schedule when it runs
Room(k) == IF k = "rearm" THEN 2 ELSE 1

\* the stored action can still be run within the bound
CanRun == Truthy(action) => count[action] < MaxCalls

\* the caller calls schedule(action, delay)
Schedule(k, delay) ==
    /\ arms + Room(k) <= MaxArms
    /\ now + delay <= MaxTime
    /\ Become(schedule(Self, k, delay), "schedule")

\* the caller calls clear()
Clear == Become(clear(Self), "clear")

\* the caller calls fireImmediately()
FireImmediately ==
    /\ CanRun
    /\ Become(fireImmediately(Self), "fire")

\* the host delivers a due timer: the registration is consumed, then the
\* callback (fireImmediately) runs
TimerDeliver(t) ==
    /\ t \in timers
    /\ t.due <= now
    /\ CanRun
    /\ Become(fireImmediately([Self EXCEPT !.timers = @ \ {t}]), "timer")

\* the clock advances by one millisecond
Tick ==
    /\ now < MaxTime
    /\ now' = now + 1
    /\ op' = "tick" /\ ran' = Null /\ threw' = FALSE /\ removed' = {}
    /\ UNCHANGED <<value, action, startTime, delayMs, timers,
                   arms, kind, count, cleared, themeVars, plannerVars>>

Next ==
    \/ \E k \in Kinds, delay \in Delays : Schedule(k, delay)
    \/ Clear
    \/ FireImmediately
    \/ \E t \in timers : TimerDeliver(t)
    \/ Tick

Spec == Init /\ [][Next]_vars

\* the host's event loop: time passes and due timers are delivered
HostFair == WF_vars(Tick) /\ WF_vars(\E t \in timers : TimerDeliver(t))

FairSpec == Spec /\ HostFair

\* a caller that only ever calls schedule(); the host does the rest
NextSched ==
    \/ \E k \in Kinds, delay \in Delays : Schedule(k, delay)
    \/ \E t \in timers : TimerDeliver(t)
    \/ Tick

SchedSpec == Init /\ [][NextSched]_vars /\ HostFair

\* the theme store in a browser: any entry and any root class list to begin
ThemeInit ==
    /\ TimerInit
    /\ PlannerOff /\ settings = {}
    /\ ThemeOff
    /\ stored \in StoredValues
    /\ rootClasses \in ClassLists

ThemeNext ==
    \/ \E throws \in BOOLEAN : ThemeLoad(throws)
    \/ \E m \in Modes, throws \in BOOLEAN : ThemeSet(m, throws)
    \/ \E classes \in ClassLists : AppSetsClass(classes)
    \/ Observe
    \/ \E classes \in ClassLists : Reload(classes)

ThemeSpec == ThemeInit /\ [][ThemeNext]_vars

PlannerInit ==
    /\ TimerInit
    /\ NoTheme
    /\ PlannerOff /\ settings = {}

PlannerNext ==
    \/ Mount
    \/ \E x \in Titles : EditTitle(x)
    \/ \E x \in Deadlines : EditDeadline(x)
    \/ \E x \in CardCounts : EditTotalCards(x)
    \/ \E x \in Capacities : EditDailyCapacity(x)
    \/ \E x \in Retentions : EditRetention(x)
    \/ Compute
    \/ Reset
    \/ EndSession

PlannerSpec == PlannerInit /\ [][PlannerNext]_vars

TypeOK ==
    /\ value \in Arms \cup {Null} /\ action \in Arms \cup {Null}
    /\ startTime \in (0..MaxTime) \cup {Null}
    /\ delayMs \in Delays \cup {Null}
    /\ now \in 0..MaxTime /\ arms \in 0..MaxArms
    /\ \A t \in timers : t.handle \in Arms /\ t.due \in 0..MaxTime
    /\ cleared \subseteq Arms

\* ---- properties ----

\* no pending action, no handle, no outstanding registration
Idle == ~isScheduled /\ action = Null /\ timers = {}

\* C1: between calls the fields action, startTime, delayMs and value are
\* all non-null or all null.
AllOrNothing ==
    \/ action # Null /\ startTime # Null /\ delayMs # Null /\ value # Null
    \/ action = Null /\ startTime = Null /\ delayMs = Null /\ value = Null

\* C2: after a clear() returns isScheduled() is false, and no action that
\* was scheduled before that clear() is invoked in any later step.
ClearCancels ==
    [][/\ op' = "clear" => ~isScheduled'
       /\ \A i \in Arms : i \in cleared => count'[i] = count[i]]_vars

\* C3: fireImmediately() on an instance whose isScheduled() is false invokes
\* no action and changes neither the object nor the host.
FireOnIdleIsNoop ==
    [][(op' = "fire" /\ ~isScheduled) =>
          /\ ran' = Null
          /\ UNCHANGED <<value, action, startTime, delayMs, timers, count>>]_vars

\* C4: when fireImmediately() (direct or by timer delivery) has run a
\* pending action, the instance is idle afterwards, also when it raised.
IdleAfterFiring == (op \in {"fire", "timer"} /\ ran # Null) => Idle

\* C5: the action of one schedule() call is invoked at most once.
AtMostOncePerArm == \A i \in Arms : count[i] <= 1

\* C6: when the caller only calls schedule(): an arm superseded by a later
\* schedule() is never invoked afterwards; no arm is invoked twice; a timer
\* delivery invokes the latest arm, not before its delay has elapsed since
\* its schedule() call; and the pending arm is eventually invoked exactly
\* once unless a later schedule() supersedes it.
RescheduleReplaces ==
    /\ [][\A i \in Arms : i < arms => count'[i] = count[i]]_vars
    /\ [](\A i \in Arms : count[i] <= 1)
    /\ [][(op' = "timer" /\ ran' # Null) =>
             (ran' = arms /\ ran' = action /\ now >= startTime + delayMs)]_vars
    /\ \A i \in Arms : (value = i) ~> (count[i] = 1 \/ i < arms)

\* a second schedule() replaced a still pending first one, whose action never
\* ran, and the host then delivered the second
RescheduleFired ==
    /\ arms >= 2 /\ count[1] = 0 /\ count[2] = 1
    /\ op = "timer" /\ ran = 2 /\ delayMs = Null

\* C7: a direct fireImmediately() on an armed instance runs the pending
\* action within the call and leaves the instance idle with its timer
\* deregistered.
FlushLeavesIdle ==
    [][(op' = "fire" /\ isScheduled) => (ran' = action /\ Idle')]_vars

\* C8: with a host that delivers due timers, the action of every schedule()
\* call is eventually invoked unless a clear() (direct, or inside a later
\* schedule() or the firing that made the call) returns after it first;
\* this holds for every arm of a run, whatever happened before it.
EveryArmFires ==
    \A i \in Arms : (i <= arms) ~> (count[i] > 0 \/ i \in cleared)

\* the host delivered a later arm after an earlier arm's action raised in
\* its own delivery
FiredAfterEarlierRaise ==
    /\ arms >= 2 /\ kind[1] = "raise" /\ count[1] >= 1
    /\ op = "timer" /\ ran = arms /\ count[arms] = 1

\* C9: at most one registration made by the instance is outstanding, and
\* it is the one whose handle the instance holds.
OneRegistration ==
    /\ Cardinality(timers) <= 1
    /\ \A t \in timers : t.handle = value

\* a schedule() call deregistered the previous registration and left its own
Rescheduled ==
    /\ op = "schedule" /\ removed # {}
    /\ timers # {} /\ \A t \in timers : t.handle = arms /\ t.handle \notin removed

\* C10: isScheduled() is true exactly when there is a pending action with
\* an outstanding registration that will invoke it.
ScheduledIffArmed ==
    isScheduled <=> (Truthy(action) /\ \E t \in timers : t.handle = value)

\* C11: getRemaining() is null exactly when isScheduled() is false;
\* otherwise it is delayMs - (now - startTime), or 0 when that is negative,
\* for the start time and delay of the latest schedule() call: schedule()
\* records the current time and the delay it hands to the host, and the
\* two fields keep their values for as long as the same handle is held.
RemainingFormula ==
    /\ [](getRemaining = Null <=> ~isScheduled)
    /\ [](isScheduled =>
            /\ getRemaining >= 0
            /\ getRemaining = (IF delayMs - (now - startTime) >= 0
                               THEN delayMs - (now - startTime) ELSE 0))
    /\ [][op' = "schedule" =>
            /\ value' = arms' /\ startTime' = now'
            /\ \E t \in timers' : t.handle = value' /\ t.due = now' + delayMs'
            /\ getRemaining' = delayMs']_vars
    /\ [][(isScheduled /\ value' = value) =>
            (startTime' = startTime /\ delayMs' = delayMs)]_vars

\* the delay of a pending arm has run out and the clock has moved past it
RemainingClamped ==
    /\ isScheduled /\ timers # {}
    /\ delayMs - (now - startTime) < 0 /\ getRemaining = 0

\* C12: while the instance stays armed and neither schedule() nor clear() is
\* called, getRemaining() never grows from one step to the next, and it is
\* 0 in the state in which the host delivers the timer.
RemainingNeverGrows ==
    /\ [][(isScheduled /\ isScheduled' /\ op' \notin {"schedule", "clear"}) =>
            getRemaining' <= getRemaining]_vars
    /\ [][op' = "timer" => getRemaining = 0]_vars

\* the host delivered the timer of an arm whose delay was not 0
DeliveredAfterCountdown ==
    /\ op = "timer" /\ ran # Null /\ now > 0
    /\ threw /\ delayMs > 0 /\ getRemaining = 0

\* C13: a schedule() call invokes no action, whatever the delay.
ScheduleDefers ==
    [][op' = "schedule" => (count' = count /\ ran' = Null)]_vars

\* schedule(action, 0) has returned: the timer is due and the action has
\* not run
ScheduledWithZeroDelay ==
    /\ op = "schedule" /\ delayMs = 0 /\ count[arms] = 0
    /\ \E t \in timers : t.handle = value /\ t.due <= now

\* C14: clear() on an instance whose isScheduled() is false raises nothing,
\* deregisters nothing and changes no field.
ClearOnIdleIsNoop ==
    [][(op' = "clear" /\ ~isScheduled) =>
          /\ ~threw' /\ removed' = {}
          /\ UNCHANGED <<value, action, startTime, delayMs, timers>>]_vars

\* clear() has returned on an instance that was never armed
ClearedWhileIdle ==
    op = "clear" /\ arms = 0 /\ ~isScheduled /\ removed = {}

\* C15: when the action run by fireImmediately() calls schedule(b, d) on
\* the same instance, the instance is idle when fireImmediately() returns,
\* and b is never invoked.
RearmDiscarded ==
    /\ (op \in {"fire", "timer"} /\ ran # Null /\ kind[ran] = "rearm") =>
          (Idle /\ arms = ran + 1)
    /\ \A i \in Arms :
          (i > 1 /\ kind[i - 1] = "rearm" /\ count[i - 1] > 0) => count[i] = 0

\* a firing ran an action that scheduled another one
RearmedInsideFiring ==
    /\ op \in {"fire", "timer"} /\ ran # Null /\ kind[ran] = "rearm"
    /\ arms = ran + 1 /\ kind[arms] = "ok"

\* C16: as long as the storage has not thrown, the entry equals the store's
\* mode whenever the module is loaded, a (re)loaded store holds the last mode
\* passed to themeMode.set, and loading takes the entry if it is a ThemeMode
\* and 'system' if it is missing or anything else.
ModePersisted ==
    /\ []((loaded /\ ~storageThrew) =>
            /\ stored = themeMode
            /\ lastSet # "none" => themeMode = lastSet)
    /\ [][(tOp' = "load" /\ loaded' /\ ~loaded /\ ~storageThrew') =>
            themeMode' = (IF stored \in Modes THEN stored ELSE "system")]_vars

\* a reloaded page came up in a mode set before the reload, other than the
\* default
ReloadedIntoLastMode ==
    /\ tOp = "load" /\ loaded /\ ~storageThrew
    /\ lastSet = "dark" /\ themeMode = "dark"

\* C17: a change of themeMode to 'dark' leaves night-mode on the root, to
\* 'light' leaves it off, and to 'system' leaves the root's class list as
\* it was; no other class is touched.
ModeApplied ==
    [][(loaded' /\ themeMode' # themeMode) =>
          /\ themeMode' = "dark" => "night-mode" \in rootClasses'
          /\ themeMode' = "light" => "night-mode" \notin rootClasses'
          /\ themeMode' = "system" => rootClasses' = rootClasses
          /\ rootClasses' \ {"night-mode"} = rootClasses \ {"night-mode"}]_vars

\* the mode went from 'dark' to 'system' and the root kept night-mode
SystemKeepsDark ==
    /\ tOp = "set" /\ themeMode = "system" /\ lastSet = "system"
    /\ "night-mode" \in rootClasses /\ stored = "system"

\* C18: when compute() has found 0 days remaining, the note it leaves is the
\* deadline-reached message and requiredPerDay equals totalCards.
ReachedNoteShown ==
    (pOp \in {"compute", "mount"} /\ daysRemaining = 0) =>
        (note = "reached" /\ requiredPerDay = totalCards)

\* C19: load() in a new session restores all five fields of the settings
\* that compute() saved with a non-empty deadline.
SettingsRestored ==
    [][(pOp' = "mount" /\ ~mounted) =>
          \A r \in settings : r.deadline # "" =>
              /\ title' = r.title /\ deadline' = r.deadline
              /\ totalCards' = r.totalCards
              /\ dailyCapacity' = r.dailyCapacity
              /\ retention' = r.retention]_vars
====
